---------------------------- MODULE Spec2Model ----------------------------
(***************************************************************************)
(* QR matrix file sender: the frame generator (core/qr_generator.py), the  *)
(* transmission scheduler (core/transmission.py) and the UI handlers that  *)
(* drive them (ui/main_window.py), as one state machine.                   *)
(*                                                                         *)
(* Threads: the UI thread runs the handlers (OnFileSelected,               *)
(* GenerateAllQrcodes, Start, OnStopTransmission) one at a time; every     *)
(* accepted generate_all_qrcodes spawns a worker running _generate_thread; *)
(* every accepted start() spawns a thread running _transmission_loop.      *)
(* Worker and loop threads are cut into steps at the points where they     *)
(* render, take qr_images_lock, or sleep.                                  *)
(***************************************************************************)
EXTENDS Integers, Sequences, FiniteSets, TLC

\* ------------------------------------------------------------------ bounds
\* A behaviour is bounded by its budget (the variable lim): the file loads,
\* the generation workers and the loop threads it may start, and the loop
\* iterations all its loop threads may run together.
MaxRuns    == 2   \* size of the worker table
MaxThreads == 2   \* size of the loop thread table
TxFiles    == 1   \* budget of the transmission scenarios (SpecTx)
TxRuns     == 1
TxThreads  == 2
TxTicks    == 9
GenFiles   == 2   \* budget of the generation scenarios (SpecGen)
GenRuns    == 2
GenThreads == 1
GenTicks   == 3
ApiFiles   == 1   \* budget of the scenarios that call start() directly (SpecApi)
ApiRuns    == 1
ApiThreads == 1
ApiTicks   == 4
GridFiles   == 1   \* budget of the small-canvas scenarios (SpecGrid)
GridRuns    == 2
GridThreads == 1
GridTicks   == 5

\* chunk counts a loaded file may have (len(result['chunks']))
ChunkCounts == {1, 20}
\* frame rates handed to start()
FpsValues == {1}
\* (cols, rows) the canvas reports
CanvasSizes == {<<5, 4>>, <<3, 3>>}
\* canvases of a small window: max(1, width // 250) x max(1, height // 250)
SmallCanvasSizes == {<<2, 2>>, <<1, 2>>, <<1, 3>>}
\* file contents given to process_file: byte strings up to MaxFileLen long
MaxFileLen == 2
FileBytes == {0, 77, 255}
\* FileProcessor.chunk_size values
ChunkSizes == {1, 3, 4, 5, 800}
\* canvases and chunk counts of the page render calls looked at
MaxCols == 6
MaxRows == 5
PageChunkCounts == {1, 20, 40}

\* ------------------------------------------------------- program constants
MinCols == 5
MinRows == 4
ControlQrCount == 4
MinDataQr == 16
VideoControlQrCount == 2
HeaderSeconds == 2
MatrixSeconds == 3

\* ------------------------------------------------------------------- state
VARIABLES
    canvas_size,        \* <<cols, rows>> the canvas fits (QRDisplayCanvas)
    shown,              \* the image on the canvas
    file_data,          \* QRGenerator.file_data
    qr_images,          \* QRGenerator.qr_images: key -> frame
    qr_images_lock,     \* 0 = free, r = held by generation worker r
    is_generating,      \* QRGenerator.is_generating
    gen,                \* generation workers: run id -> its locals
    nRuns,              \* workers spawned so far
    nFiles,             \* files loaded so far
    is_transmitting,    \* TransmissionController.is_transmitting
    current_index,      \* TransmissionController.current_index
    cycle_count,        \* TransmissionController.cycle_count
    single_cycle_mode,  \* TransmissionController.single_cycle_mode
    th,                 \* loop threads: thread id -> its locals
    nThreads,           \* loop threads spawned so far
    start_btn,          \* ControlPanel.start_btn is enabled
    stop_btn,           \* ControlPanel.stop_btn is enabled
    lim,                \* the budget of the behaviour
    noop,               \* the last step was this call and it returned early
                        \* (generate refused) or had no file to read
    fp,                 \* one FileProcessor.process_file call: inputs, result
    pg                  \* one page render call: inputs, cells

vars == <<canvas_size, shown, file_data, qr_images, qr_images_lock,
          is_generating, gen, nRuns, nFiles, is_transmitting, current_index,
          cycle_count, single_cycle_mode, th, nThreads, start_btn, stop_btn,
          lim, noop, fp, pg>>

genVars == <<file_data, qr_images, qr_images_lock, is_generating, gen,
             nRuns, nFiles>>
txVars == <<is_transmitting, current_index, cycle_count, single_cycle_mode,
            th, nThreads>>
uiVars == <<start_btn, stop_btn, lim>>
fnVars == <<fp, pg>>

\* loop iterations run so far by all loop threads
RECURSIVE SumTicks(_)
SumTicks(n) == IF n = 0 THEN 0 ELSE th[n].ticks + SumTicks(n - 1)

Runs == 1..MaxRuns
Threads == 1..MaxThreads

\* ----------------------------------------------------------------- helpers
Min(a, b) == IF a <= b THEN a ELSE b
Max(a, b) == IF a >= b THEN a ELSE b

\* Python's a // b (floor division) for b # 0
FloorDiv(a, b) == IF b > 0 THEN a \div b ELSE (0 - a) \div (0 - b)

\* file_data before any file is loaded
None == [id |-> 0, chunks |-> 0]

\* the result of get_image for a missing key, and an empty canvas
NoImage == [kind |-> "none", src |-> 0, lay |-> 0, page |-> 0, total |-> 0,
            first |-> 0]

HeaderKey == <<"header">>
PageKey(i) == <<"page", i>>
EmptyStore == [k \in {} |-> NoImage]

\* QRDisplayCanvas.get_matrix_size: (cols, rows, cols * rows), cols, rows >= 1
GetMatrixSize == <<canvas_size[1], canvas_size[2], canvas_size[1] * canvas_size[2]>>

\* QRGenerator.get_image: self.qr_images.get(key), taken under qr_images_lock
GetImage(key) == IF key \in DOMAIN qr_images THEN qr_images[key] ELSE NoImage

\* QRGenerator.get_chunk_count
GetChunkCount == IF file_data # None THEN file_data.chunks ELSE 0

\* store[key] = img
Put(store, key, img) ==
    [k \in (DOMAIN store) \cup {key} |-> IF k = key THEN img ELSE store[k]]

\* ------------------------------------------------------------ FileProcessor
\* mutant of ProcessFile: a result also for a path that cannot be read
ProcessFileAnyPath(exists, id, n) == [id |-> id, chunks |-> n]

\* FileProcessor.process_file: None for a missing or unreadable path, else the
\* result whose chunk list has n entries (id names the file it came from)
ProcessFile(exists, id, n) == IF exists THEN [id |-> id, chunks |-> n] ELSE None

\* the byte strings over FileBytes of length n
RECURSIVE BytesOfLen(_)
BytesOfLen(n) ==
    IF n = 0 THEN {<<>>}
    ELSE {<<b>> \o t : b \in FileBytes, t \in BytesOfLen(n - 1)}

FileContents == UNION {BytesOfLen(n) : n \in 0..MaxFileLen}

\* s[i:j] of Python for 0 <= i: the items i .. j-1 that exist (0-based)
Slice(seq, i, j) == SubSeq(seq, i + 1, Min(j, Len(seq)))

\* compress_data: the library codec (zstd when it is installed, else gzip),
\* as the frame both formats are: a magic byte of the format, the content,
\* its length; never empty, also for empty data
Compress(data, has_zstd) ==
    <<IF has_zstd THEN 40 ELSE 31>> \o data \o <<Len(data) % 256>>

\* the codec's inverse, as the receiver applies it
Decompress(frame) == SubSeq(frame, 2, Len(frame) - 1)

\* the base64 alphabet as code points: A-Z a-z 0-9 + /
B64Char(v) ==
    IF v < 26 THEN 65 + v
    ELSE IF v < 52 THEN 97 + (v - 26)
    ELSE IF v < 62 THEN 48 + (v - 52)
    ELSE IF v = 62 THEN 43 ELSE 47

B64Pad == 61

B64Value(c) ==
    IF c >= 65 /\ c <= 90 THEN c - 65
    ELSE IF c >= 97 /\ c <= 122 THEN c - 97 + 26
    ELSE IF c >= 48 /\ c <= 57 THEN c - 48 + 52
    ELSE IF c = 43 THEN 62 ELSE 63

\* base64.b64encode(bytes).decode('utf-8'): three bytes to four characters,
\* the tail padded with '='
RECURSIVE B64Encode(_)
B64Encode(bytes) ==
    IF bytes = <<>> THEN <<>>
    ELSE IF Len(bytes) = 1
    THEN <<B64Char(bytes[1] \div 4), B64Char((bytes[1] % 4) * 16),
           B64Pad, B64Pad>>
    ELSE IF Len(bytes) = 2
    THEN <<B64Char(bytes[1] \div 4),
           B64Char((bytes[1] % 4) * 16 + bytes[2] \div 16),
           B64Char((bytes[2] % 16) * 4), B64Pad>>
    ELSE <<B64Char(bytes[1] \div 4),
           B64Char((bytes[1] % 4) * 16 + bytes[2] \div 16),
           B64Char((bytes[2] % 16) * 4 + bytes[3] \div 64),
           B64Char(bytes[3] % 64)>> \o B64Encode(SubSeq(bytes, 4, Len(bytes)))

\* base64.b64decode of a padded text, as the receiver applies it
RECURSIVE B64Decode(_)
B64Decode(text) ==
    IF Len(text) < 4 THEN <<>>
    ELSE LET a == B64Value(text[1])
             b == B64Value(text[2])
             c == B64Value(text[3])
             d == B64Value(text[4])
             rest == B64Decode(SubSeq(text, 5, Len(text)))
         IN  IF text[3] = B64Pad THEN <<a * 4 + b \div 16>>
             ELSE IF text[4] = B64Pad
             THEN <<a * 4 + b \div 16, (b % 16) * 16 + c \div 4>>
             ELSE <<a * 4 + b \div 16, (b % 16) * 16 + c \div 4,
                    (c % 4) * 64 + d>> \o rest

\* mutant of Segment: a short final chunk is dropped
RECURSIVE SegmentNoTail(_, _)
SegmentNoTail(text, size) ==
    IF Len(text) < size THEN <<>>
    ELSE <<Slice(text, 0, size)>>
         \o SegmentNoTail(Slice(text, size, Len(text)), size)

\* mutant of Segment: a short final chunk is joined to the chunk before it
RECURSIVE SegmentJoinTail(_, _)
SegmentJoinTail(text, size) ==
    IF text = <<>> THEN <<>>
    ELSE IF Len(text) < 2 * size THEN <<text>>
    ELSE <<Slice(text, 0, size)>>
         \o SegmentJoinTail(Slice(text, size, Len(text)), size)

\* process_file, lines 43-45: for i in range(0, len(encoded_data), chunk_size):
\* chunks.append(encoded_data[i:i + chunk_size])
RECURSIVE Segment(_, _)
Segment(text, size) ==
    IF text = <<>> THEN <<>>
    ELSE <<Slice(text, 0, size)>> \o Segment(Slice(text, size, Len(text)), size)

\* process_file returned None
NoResult == [ok |-> FALSE, file_name |-> "", file_type |-> "",
             original_size |-> 0, compressed_size |-> 0,
             chunks |-> <<>>, compression_type |-> "none"]

\* process_file on a path: None when the path does not exist (lines 24-26)
\* or reading it raises (lines 56-58), else the result record
ProcessFileData(path_ok, data, size, has_zstd) ==
    IF ~path_ok THEN NoResult
    ELSE LET compressed_data == Compress(data, has_zstd)
             encoded_data == B64Encode(compressed_data)
         IN  [ok |-> TRUE, file_name |-> "path.name",
              file_type |-> "path.suffix", original_size |-> Len(data),
              compressed_size |-> Len(compressed_data),
              chunks |-> Segment(encoded_data, size),
              compression_type |-> IF has_zstd THEN "zstd" ELSE "gzip"]

\* _create_header_qr, lines 131-143: the header_info payload built from
\* file data fd
CreateHeaderInfo(fd) ==
    [type |-> "header", fileName |-> fd.file_name, fileType |-> fd.file_type,
     originalSize |-> fd.original_size, compressedSize |-> fd.compressed_size,
     compressed |-> TRUE, compressionType |-> fd.compression_type,
     totalChunks |-> Len(fd.chunks),
     chunkSize |-> IF fd.chunks # <<>> THEN Len(fd.chunks[1]) ELSE 0,
     timestamp |-> "time.time"]

\* no header payload
NoHeader == [type |-> "none"]

\* no process_file call is being looked at
NoCall == [pc |-> "none", path_ok |-> FALSE, data |-> <<>>, chunk_size |-> 1,
           has_zstd |-> FALSE, result |-> NoResult, header |-> NoHeader]

\* the calls looked at: a path, its content, the processor's chunk size, the
\* codec installed
Calls == {[NoCall EXCEPT !.pc = "call", !.path_ok = ok, !.data = d,
                         !.chunk_size = sz, !.has_zstd = z] :
              ok \in BOOLEAN, d \in FileContents, sz \in ChunkSizes,
              z \in BOOLEAN}

\* FileProcessor.process_file runs
FpProcessFile ==
    /\ fp.pc = "call"
    /\ fp' = [fp EXCEPT !.pc = "returned",
                        !.result = ProcessFileData(fp.path_ok, fp.data,
                                                   fp.chunk_size, fp.has_zstd)]
    /\ UNCHANGED <<canvas_size, shown, lim, noop, pg>>
    /\ UNCHANGED <<genVars, txVars, start_btn, stop_btn>>

\* the result is handed to the generator (set_file_data) and
\* _create_header_qr builds the header payload from it
FpCreateHeader ==
    /\ fp.pc = "returned"
    /\ fp.result.ok
    /\ fp' = [fp EXCEPT !.pc = "header",
                        !.header = CreateHeaderInfo(fp.result)]
    /\ UNCHANGED <<canvas_size, shown, lim, noop, pg>>
    /\ UNCHANGED <<genVars, txVars, start_btn, stop_btn>>

\* -------------------------------------------------------------- QRGenerator
\* a worker's locals before it has run
IdleWorker == [pc |-> "none", cols |-> 0, rows |-> 0, qr_per_frame |-> 0,
               photo_mode |-> TRUE, chunks |-> None, i |-> 0, step |-> 0,
               img |-> NoImage, stored |-> {}, completed |-> 0]

\* mutant of GenerateRejects: the busy flag is not looked at
GenerateRejectsNoBusy(fd) == fd = None

\* generate_all_qrcodes, line 34: the call returns without doing anything
GenerateRejects(fd) == is_generating \/ fd = None

\* generate_all_qrcodes on file data fd: the guard, the flag, the new thread
Generate(fd, size, photo) ==
    IF GenerateRejects(fd)
    THEN UNCHANGED <<is_generating, gen, nRuns>>
    ELSE /\ is_generating' = TRUE
         /\ nRuns' = nRuns + 1
         /\ gen' = [gen EXCEPT ![nRuns + 1] =
                       [IdleWorker EXCEPT !.pc = "begin", !.cols = size[1],
                                          !.rows = size[2],
                                          !.qr_per_frame = size[3],
                                          !.photo_mode = photo]]

\* set_file_data: the new data, and the store cleared (without the lock)
SetFileData(fd) ==
    /\ file_data' = fd
    /\ qr_images' = EmptyStore

\* _generate_photo_optimized_matrices, lines 102-110: chunks per page
PhotoQrPerFrame(cols, rows) ==
    Max(MinDataQr, (Max(MinCols, cols) * Max(MinRows, rows)) - ControlQrCount)

\* _generate_thread: chunks per page in the mode of worker w
PageStep(w) ==
    IF w.photo_mode THEN PhotoQrPerFrame(w.cols, w.rows)
    ELSE w.qr_per_frame - VideoControlQrCount

\* (len(chunks) + per - 1) // per
TotalPages(n, per) == FloorDiv(n + per - 1, per)

\* the page keys range(0, n, step) yields, step > 0
RangeKeys(n, step) == {i \in 0..(n - 1) : i % step = 0}

\* _create_header_qr: rendered from self.file_data
HeaderFrame == [kind |-> "header", src |-> file_data.id, lay |-> file_data.id,
                page |-> 0, total |-> 0, first |-> 0]

\* _create_photo_optimized_matrix / _create_qr_matrix for the page starting at
\* w.i: the loop runs over the worker's own chunk list, the cells are filled
\* from self.file_data; the markers carry page and total
PageFrame(w) ==
    [kind |-> "page", src |-> file_data.id, lay |-> w.chunks.id,
     page |-> FloorDiv(w.i, w.step) + 1,
     total |-> IF w.photo_mode THEN TotalPages(w.chunks.chunks, w.step)
               ELSE TotalPages(file_data.chunks, w.step),
     first |-> w.i]

\* a cell of a page image; index = the chunk it carries, else -1
Cell(kind, position, index, page, total) ==
    [kind |-> kind, position |-> position, index |-> index, page |-> page,
     total |-> total]

\* mutant of ControlData: the page field is kept from the first page
ControlDataFirstPage(position, page_number, total_pages) ==
    Cell("control", position, -1, 1, total_pages)

\* the control_data payload of a corner cell (lines 179-185, 196-202,
\* 212-218, 228-234, 310-316, 329-335)
ControlData(position, page_number, total_pages) ==
    Cell("control", position, -1, page_number, total_pages)

\* _create_photo_optimized_matrix(start_index, cols, rows, qr_per_frame,
\* page_number, total_pages) over n = len(self.file_data['chunks']) chunks:
\* the caption (line 167) and the cells in the order of the loops (lines
\* 173-276); off[k] is chunk_offset when cell k is reached
CreatePhotoOptimizedMatrix(start_index, cols, rows, qr_per_frame, page_number, total_pages, n) ==
    LET Row(k) == k \div cols
        Col(k) == k % cols
        Position(k) ==
            IF Row(k) = 0 /\ Col(k) = 0 THEN "top-left"
            ELSE IF Row(k) = 0 /\ Col(k) = cols - 1 THEN "top-right"
            ELSE IF Row(k) = rows - 1 /\ Col(k) = 0 THEN "bottom-left"
            ELSE IF Row(k) = rows - 1 /\ Col(k) = cols - 1 THEN "bottom-right"
            ELSE ""
        off[k \in 0..(cols * rows)] ==
            IF k = 0 THEN 0
            ELSE LET before == off[k - 1]
                 IN  IF Position(k - 1) = "" /\ start_index + before < n
                     THEN before + 1 ELSE before
        chunk_index(k) == start_index + off[k - 1]
    IN  [caption |-> [page |-> page_number, total |-> total_pages,
                      first |-> start_index + 1,
                      last |-> Min(start_index + qr_per_frame, n)],
         cells |-> [k \in 1..(cols * rows) |->
                      IF Position(k - 1) # ""
                      THEN ControlData(Position(k - 1), page_number, total_pages)
                      ELSE IF chunk_index(k) < n
                      THEN Cell("chunk", "", chunk_index(k), 0, 0)
                      ELSE Cell("empty", "", -1, 0, 0)]]

\* _create_qr_matrix(start_index, cols, rows, adjusted_qr_per_frame,
\* page_number): no caption, two control cells, and a cell past the last
\* chunk is left as the white background (lines 303-364)
CreateQrMatrix(start_index, cols, rows, adjusted_qr_per_frame, page_number, n) ==
    LET total_pages == TotalPages(n, adjusted_qr_per_frame)
        Row(k) == k \div cols
        Col(k) == k % cols
        Position(k) ==
            IF Row(k) = 0 /\ Col(k) = 0 THEN "top-left"
            ELSE IF Row(k) = rows - 1 /\ Col(k) = cols - 1 THEN "bottom-right"
            ELSE ""
        off[k \in 0..(cols * rows)] ==
            IF k = 0 THEN 0
            ELSE LET before == off[k - 1]
                 IN  IF Position(k - 1) = "" /\ start_index + before < n
                     THEN before + 1 ELSE before
        chunk_index(k) == start_index + off[k - 1]
    IN  [caption |-> [page |-> 0, total |-> 0, first |-> 0, last |-> 0],
         cells |-> [k \in 1..(cols * rows) |->
                      IF Position(k - 1) # ""
                      THEN ControlData(Position(k - 1), page_number, total_pages)
                      ELSE IF chunk_index(k) < n
                      THEN Cell("chunk", "", chunk_index(k), 0, 0)
                      ELSE Cell("blank", "", -1, 0, 0)]]

\* no page image
NoMatrix == [caption |-> [page |-> 0, total |-> 0, first |-> 0, last |-> 0],
             cells |-> <<>>]

\* no page render call is being looked at
NoRender == [pc |-> "none", cols |-> 1, rows |-> 1, n |-> 0, photo_mode |-> TRUE,
             i |-> 0, step |-> 1, matrix |-> NoMatrix]

\* the page step _generate_thread uses for a canvas (cols, rows, cols * rows)
StepFor(cols, rows, photo) ==
    PageStep([photo_mode |-> photo, cols |-> cols, rows |-> rows,
              qr_per_frame |-> cols * rows])

\* the render calls of a run over n chunks on a canvas (cols, rows): one for
\* every i of range(0, n, step)
RendersOf(c, r, n, ph) ==
    IF StepFor(c, r, ph) < 1 THEN {}
    ELSE {[NoRender EXCEPT !.pc = "call", !.cols = c, !.rows = r, !.n = n,
                           !.photo_mode = ph, !.i = i,
                           !.step = StepFor(c, r, ph)] :
              i \in RangeKeys(n, StepFor(c, r, ph))}

\* the render calls looked at
Renders ==
    UNION {RendersOf(c, r, n, ph) :
               c \in 1..MaxCols, r \in 1..MaxRows, n \in PageChunkCounts,
               ph \in BOOLEAN}

\* one iteration of the page loop renders its image (lines 73-81, 112-122)
PgRender ==
    /\ pg.pc = "call"
    /\ pg' = [pg EXCEPT
          !.pc = "returned",
          !.matrix =
              IF pg.photo_mode
              THEN CreatePhotoOptimizedMatrix(
                       pg.i, Max(MinCols, pg.cols), Max(MinRows, pg.rows),
                       pg.step, FloorDiv(pg.i, pg.step) + 1,
                       TotalPages(pg.n, pg.step), pg.n)
              ELSE CreateQrMatrix(pg.i, pg.cols, pg.rows, pg.step,
                                  FloorDiv(pg.i, pg.step) + 1, pg.n)]
    /\ UNCHANGED <<canvas_size, shown, lim, noop, fp>>
    /\ UNCHANGED <<genVars, txVars, start_btn, stop_btn>>

\* MainWindow.on_generation_complete: enable start, show the header frame
OnGenerationComplete ==
    /\ start_btn' = TRUE
    /\ shown' = GetImage(HeaderKey)

\* mutant of RangeExhausted: the loop ends one page early
RangeExhaustedEarly(i, n, step) == (step > 0 /\ i + step >= n) \/ step < 0

\* lines 73, 112: range(0, n, step) has no element left at i (it is empty
\* from the start for a negative step)
RangeExhausted(i, n, step) == (step > 0 /\ i >= n) \/ step < 0

\* mutant of Finally: the flag is cleared on the normal path only
FinallyMissing == UNCHANGED is_generating

\* lines 90-91: finally: self.is_generating = False
Finally == is_generating' = FALSE

\* _generate_thread, lines 51-56: the chunk list is read once
GenBegin(r) ==
    /\ gen[r].pc = "begin"
    /\ gen' = [gen EXCEPT ![r].pc = "render_header", ![r].chunks = file_data]
    /\ UNCHANGED <<canvas_size, shown, file_data, qr_images, qr_images_lock,
                   is_generating, nRuns, nFiles>>
    /\ UNCHANGED txVars
    /\ UNCHANGED <<uiVars, fnVars>> /\ noop' = "none"

\* line 57: header_img = self._create_header_qr()
GenRenderHeader(r) ==
    /\ gen[r].pc = "render_header"
    /\ gen' = [gen EXCEPT ![r].pc = "lock_header", ![r].img = HeaderFrame]
    /\ UNCHANGED <<canvas_size, shown, file_data, qr_images, qr_images_lock,
                   is_generating, nRuns, nFiles>>
    /\ UNCHANGED txVars
    /\ UNCHANGED <<uiVars, fnVars>> /\ noop' = "none"

\* mutant of Release: the lock is kept after the store
ReleaseMissing == UNCHANGED qr_images_lock

\* the end of a with self.qr_images_lock block (lines 58-59, 83-84, 124-125)
Release == qr_images_lock' = 0

\* a with self.qr_images_lock statement is entered (lines 58, 83, 124)
GenAcquire(r) ==
    /\ gen[r].pc \in {"lock_header", "lock_page"}
    /\ qr_images_lock = 0
    /\ qr_images_lock' = r
    /\ gen' = [gen EXCEPT ![r].pc = IF gen[r].pc = "lock_header"
                                    THEN "store_header" ELSE "store_page"]
    /\ UNCHANGED <<canvas_size, shown, file_data, qr_images, is_generating,
                   nRuns, nFiles>>
    /\ UNCHANGED txVars
    /\ UNCHANGED <<uiVars, fnVars>> /\ noop' = "none"

\* line 59: self.qr_images['header'] = header_img, the lock released; then the
\* page step of the mode is fixed (lines 64-72, 102-110)
GenStoreHeader(r) ==
    /\ gen[r].pc = "store_header"
    /\ qr_images_lock = r
    /\ qr_images' = Put(qr_images, HeaderKey, gen[r].img)
    /\ Release
    /\ gen' = [gen EXCEPT ![r].pc = "pages", ![r].i = 0,
                          ![r].step = PageStep(gen[r]),
                          ![r].stored = @ \cup {HeaderKey}]
    /\ UNCHANGED <<canvas_size, shown, file_data, is_generating, nRuns, nFiles>>
    /\ UNCHANGED txVars
    /\ UNCHANGED <<uiVars, fnVars>> /\ noop' = "none"

\* lines 73-81, 112-122: the next page of range(0, len(chunks), step) is
\* rendered
GenRenderPage(r) ==
    /\ gen[r].pc = "pages"
    /\ gen[r].step # 0
    /\ ~RangeExhausted(gen[r].i, gen[r].chunks.chunks, gen[r].step)
    /\ gen' = [gen EXCEPT ![r].pc = "lock_page", ![r].img = PageFrame(gen[r])]
    /\ UNCHANGED <<canvas_size, shown, file_data, qr_images, qr_images_lock,
                   is_generating, nRuns, nFiles>>
    /\ UNCHANGED txVars
    /\ UNCHANGED <<uiVars, fnVars>> /\ noop' = "none"

\* lines 84, 125: self.qr_images[i] = photo, the lock released
GenStorePage(r) ==
    /\ gen[r].pc = "store_page"
    /\ qr_images_lock = r
    /\ qr_images' = Put(qr_images, PageKey(gen[r].i), gen[r].img)
    /\ Release
    /\ gen' = [gen EXCEPT ![r].pc = "pages", ![r].i = @ + gen[r].step,
                          ![r].stored = @ \cup {PageKey(gen[r].i)}]
    /\ UNCHANGED <<canvas_size, shown, file_data, is_generating, nRuns, nFiles>>
    /\ UNCHANGED txVars
    /\ UNCHANGED <<uiVars, fnVars>> /\ noop' = "none"

\* lines 88-91: the range is exhausted (at once for a negative step):
\* complete_callback(), then the finally clause
GenComplete(r) ==
    /\ gen[r].pc = "pages"
    /\ RangeExhausted(gen[r].i, gen[r].chunks.chunks, gen[r].step)
    /\ qr_images_lock = 0
    /\ OnGenerationComplete
    /\ is_generating' = FALSE
    /\ gen' = [gen EXCEPT ![r].pc = "done", ![r].completed = @ + 1]
    /\ UNCHANGED <<canvas_size, file_data, qr_images, qr_images_lock, nRuns,
                   nFiles, stop_btn, lim>>
    /\ UNCHANGED <<txVars, fnVars>> /\ noop' = "none"

\* an exception leaves _generate_thread through the finally clause: a render
\* step fails (segno / PIL), or range() is given step 0 (line 73)
GenFault(r) ==
    /\ \/ gen[r].pc = "render_header"
       \/ /\ gen[r].pc = "pages"
          /\ ~RangeExhausted(gen[r].i, gen[r].chunks.chunks, gen[r].step)
    /\ Finally
    /\ gen' = [gen EXCEPT ![r].pc = "failed"]
    /\ UNCHANGED <<canvas_size, shown, file_data, qr_images, qr_images_lock,
                   nRuns, nFiles>>
    /\ UNCHANGED txVars
    /\ UNCHANGED <<uiVars, fnVars>> /\ noop' = "none"

\* ------------------------------------------------------------- UI handlers
\* MainWindow.on_file_selected: process_file, and for a result set_file_data
\* and generate_all_qrcodes (photo mode)
OnFileSelected(exists, n) ==
    /\ nFiles < lim.files
    /\ noop' = IF exists THEN "none" ELSE "on_file_selected"
    /\ LET result == ProcessFile(exists, nFiles + 1, n) IN
       IF result = None
       THEN /\ UNCHANGED <<canvas_size, shown>>
            /\ UNCHANGED <<genVars, txVars, uiVars, fnVars>>
       ELSE /\ GenerateRejects(result) \/ nRuns < lim.runs
            /\ nFiles' = nFiles + 1
            /\ SetFileData(result)
            /\ Generate(result, GetMatrixSize, TRUE)
            /\ UNCHANGED <<canvas_size, shown, qr_images_lock>>
            /\ UNCHANGED txVars
            /\ UNCHANGED <<uiVars, fnVars>>

\* QRGenerator.generate_all_qrcodes called on its own
GenerateAllQrcodes(photo) ==
    /\ GenerateRejects(file_data) \/ nRuns < lim.runs
    /\ Generate(file_data, GetMatrixSize, photo)
    /\ noop' = IF GenerateRejects(file_data) THEN "generate_all_qrcodes"
               ELSE "none"
    /\ UNCHANGED <<canvas_size, shown, file_data, qr_images, qr_images_lock,
                   nFiles>>
    /\ UNCHANGED <<txVars, uiVars, fnVars>>

\* --------------------------------------------------- TransmissionController
\* a loop thread's locals before it has run; trace = the frames it asked the
\* canvas to show, reports = its progress_callback calls, ticks = its loop
\* iterations, stop_req = stop() has been called since it was started,
\* dwell = its iterations since it last showed a page frame, that one
\* included (0 when the last frame it showed was not a page frame)
IdleThread == [pc |-> "none", fps |-> 0, header_count |-> 0,
               matrix_count |-> 0, should_stop |-> TRUE, adj |-> 0,
               chunk_count |-> 0, ticks |-> 0, trace |-> <<>>,
               reports |-> <<>>, stop_req |-> FALSE, dwell |-> 0]

\* dwell after one more iteration that showed no frame
Dwelt(d) == IF d > 0 THEN d + 1 ELSE 0

Ev(kind, key) == [ev |-> kind, key |-> key]
Report(num, den, page, total) ==
    [num |-> num, den |-> den, page |-> page, total |-> total]
\* progress_callback(100, ...)
Report100 == Report(1, 1, 0, 0)

\* create_control_qr(control_type)
ControlFrame(action) == [kind |-> action, src |-> 0, lay |-> 0, page |-> 0,
                         total |-> 0, first |-> 0]

Alive(t) == th[t].pc \notin {"none", "done", "crashed"}
\* the thread is inside the while loop of _transmission_loop
InLoop(t) == th[t].pc \in {"loop", "body"}

\* start(), line 20: the call returns without doing anything
StartRejects == is_transmitting

\* TransmissionController.start
Start(fps, single) ==
    IF StartRejects
    THEN UNCHANGED txVars
    ELSE /\ is_transmitting' = TRUE
         /\ current_index' = -1
         /\ cycle_count' = 0
         /\ single_cycle_mode' = single
         /\ nThreads' = nThreads + 1
         /\ th' = [th EXCEPT ![nThreads + 1] =
                      [IdleThread EXCEPT !.pc = "start_marker", !.fps = fps]]

\* MainWindow.on_start_transmission (the start button): start(), then the
\* buttons; the cycle mode is start()'s single_cycle argument
OnStartTransmission(fps, single) ==
    /\ start_btn
    /\ StartRejects \/ nThreads < lim.threads
    /\ Start(fps, single)
    /\ start_btn' = FALSE
    /\ stop_btn' = TRUE
    /\ UNCHANGED <<canvas_size, shown, lim>>
    /\ UNCHANGED <<genVars, fnVars>> /\ noop' = "none"

\* TransmissionController.start called by a client other than the start
\* button: any time, also with no file loaded
StartCall(fps, single) ==
    /\ StartRejects \/ nThreads < lim.threads
    /\ Start(fps, single)
    /\ UNCHANGED <<canvas_size, shown>>
    /\ UNCHANGED <<genVars, uiVars, fnVars>> /\ noop' = "none"

\* TransmissionController.stop
Stop ==
    /\ is_transmitting' = FALSE
    /\ current_index' = -1

\* MainWindow.on_stop_transmission (the stop button): stop(), the buttons,
\* then the header frame is shown
OnStopTransmission ==
    /\ stop_btn
    /\ Stop
    /\ start_btn' = TRUE
    /\ stop_btn' = FALSE
    /\ qr_images_lock = 0
    /\ shown' = GetImage(HeaderKey)
    /\ th' = [t \in Threads |->
                 IF th[t].pc # "none" THEN [th[t] EXCEPT !.stop_req = TRUE]
                 ELSE th[t]]
    /\ UNCHANGED <<canvas_size, cycle_count, single_cycle_mode, nThreads, lim>>
    /\ UNCHANGED <<genVars, fnVars>> /\ noop' = "none"

\* _transmission_loop, lines 43-44: the recording_start frame, shown 2 s
LoopStartMarker(t) ==
    /\ th[t].pc = "start_marker"
    /\ qr_images_lock = 0
    /\ shown' = ControlFrame("recording_start")
    /\ th' = [th EXCEPT ![t].pc = "setup",
                        ![t].trace = Append(@, Ev("recording_start", -1))]
    /\ UNCHANGED <<canvas_size, is_transmitting, current_index, cycle_count,
                   single_cycle_mode, nThreads>>
    /\ UNCHANGED genVars
    /\ UNCHANGED <<uiVars, fnVars>> /\ noop' = "none"

\* the scheduler's chunks per page, line 53
AdjustedQrPerFrame == GetMatrixSize[3] - ControlQrCount

\* lines 46-60: the loop's locals
LoopSetup(t) ==
    /\ th[t].pc = "setup"
    /\ th' = [th EXCEPT ![t].pc = "loop", ![t].adj = AdjustedQrPerFrame,
                        ![t].chunk_count = GetChunkCount,
                        ![t].header_count = 0, ![t].matrix_count = 0,
                        ![t].should_stop = single_cycle_mode]
    /\ UNCHANGED <<canvas_size, shown, is_transmitting, current_index,
                   cycle_count, single_cycle_mode, nThreads>>
    /\ UNCHANGED genVars
    /\ UNCHANGED <<uiVars, fnVars>> /\ noop' = "none"

\* line 62: while self.is_transmitting
LoopPoll(t) ==
    /\ th[t].pc = "loop"
    /\ is_transmitting => SumTicks(MaxThreads) < lim.ticks
    /\ th' = [th EXCEPT ![t].pc = IF is_transmitting THEN "body"
                                  ELSE "end_marker",
                        ![t].ticks = IF is_transmitting THEN @ + 1 ELSE @]
    /\ UNCHANGED <<canvas_size, shown, is_transmitting, current_index,
                   cycle_count, single_cycle_mode, nThreads>>
    /\ UNCHANGED genVars
    /\ UNCHANGED <<uiVars, fnVars>> /\ noop' = "none"

\* lines 47, 71: the header dwell is over after this iteration
HeaderExpired(count, fps) == count + 1 >= fps * HeaderSeconds

\* lines 48, 95: the page dwell is over after this iteration
MatrixExpired(count, fps) == count + 1 >= fps * MatrixSeconds

\* mutant of NextIndex: the index advances by two pages
NextIndexSkip(index, adj) == index + 2 * adj

\* line 96: self.current_index += adjusted_qr_per_frame
NextIndex(index, adj) == index + adj

\* line 99: the cycle is complete
CycleComplete(index, chunk_count) == index >= chunk_count

\* line 103: the loop is left after the cycle
BreakAfterCycle(should_stop) == should_stop

\* mutant of PageReport: progress by pages, n / total_pages
PageReportByPage(index, adj, chunk_count) ==
    Report(FloorDiv(index, adj) + 1, TotalPages(chunk_count, adj),
           FloorDiv(index, adj) + 1, TotalPages(chunk_count, adj))

\* lines 81-91: progress = chunk_end / chunk_count * 100 and the status text
\* "page_number/total_pages"
PageReport(index, adj, chunk_count) ==
    Report(Min(index + adj, chunk_count), chunk_count,
           FloorDiv(index, adj) + 1, TotalPages(chunk_count, adj))

\* lines 65-74: one iteration in the header state
HeaderTick(t) ==
    LET me == th[t]
        show == me.header_count = 0
        expired == HeaderExpired(me.header_count, me.fps)
    IN  /\ current_index = -1
        /\ IF show
           THEN qr_images_lock = 0 /\ shown' = GetImage(HeaderKey)
           ELSE UNCHANGED shown
        /\ current_index' = IF expired THEN 0 ELSE current_index
        /\ th' = [th EXCEPT
              ![t].pc = "loop",
              ![t].header_count = IF expired THEN 0 ELSE me.header_count + 1,
              ![t].matrix_count = IF expired THEN 0 ELSE me.matrix_count,
              ![t].trace = IF show THEN Append(@, Ev("header", -1)) ELSE @,
              ![t].dwell = IF show THEN 0 ELSE Dwelt(@)]
        /\ UNCHANGED <<is_transmitting, cycle_count>>

\* mutant of PageFaults: a page key missing from the store is an error too
PageFaultsOnMissingKey(me) ==
    me.chunk_count = 0 \/ me.adj = 0
        \/ PageKey(current_index) \notin DOMAIN qr_images

\* lines 82-83 divide by chunk_count and by adjusted_qr_per_frame
PageFaults(me) == me.chunk_count = 0 \/ me.adj = 0

\* lines 76-110: one iteration in a page state
PageTick(t) ==
    LET me == th[t]
        show == me.matrix_count = 0
        rep == PageReport(current_index, me.adj, me.chunk_count)
        expired == MatrixExpired(me.matrix_count, me.fps)
        next_index == NextIndex(current_index, me.adj)
        cycled == expired /\ CycleComplete(next_index, me.chunk_count)
        break == cycled /\ BreakAfterCycle(me.should_stop)
        shownTrace == IF show THEN Append(me.trace, Ev("page", current_index))
                      ELSE me.trace
    IN  /\ current_index # -1
        /\ IF show
           THEN qr_images_lock = 0 /\ shown' = GetImage(PageKey(current_index))
           ELSE UNCHANGED shown
        /\ IF show /\ PageFaults(me)
           THEN /\ th' = [th EXCEPT ![t].pc = "crashed", ![t].trace = shownTrace,
                                   ![t].dwell = 1]
                /\ UNCHANGED <<is_transmitting, current_index, cycle_count>>
           ELSE /\ current_index' = IF ~expired THEN current_index
                                    ELSE IF cycled /\ ~break THEN -1
                                    ELSE next_index
                /\ cycle_count' = IF cycled THEN cycle_count + 1 ELSE cycle_count
                /\ is_transmitting' = IF break THEN FALSE ELSE is_transmitting
                /\ th' = [th EXCEPT
                      ![t].pc = IF break THEN "end_marker" ELSE "loop",
                      ![t].matrix_count = IF expired THEN 0
                                          ELSE me.matrix_count + 1,
                      ![t].trace = shownTrace,
                      ![t].dwell = IF show THEN 1 ELSE Dwelt(@),
                      ![t].reports =
                          IF break
                          THEN (IF show THEN Append(@, rep) ELSE @) \o <<Report100>>
                          ELSE IF show THEN Append(@, rep) ELSE @]

\* lines 63-115: the body of one loop iteration, up to its sleep
LoopTick(t) ==
    /\ th[t].pc = "body"
    /\ HeaderTick(t) \/ PageTick(t)
    /\ UNCHANGED <<canvas_size, single_cycle_mode, nThreads>>
    /\ UNCHANGED genVars
    /\ UNCHANGED <<uiVars, fnVars>> /\ noop' = "none"

\* lines 118-119: the recording_end frame, shown 3 s
LoopEndMarker(t) ==
    /\ th[t].pc = "end_marker"
    /\ qr_images_lock = 0
    /\ shown' = ControlFrame("recording_end")
    /\ th' = [th EXCEPT ![t].pc = "end_sleep", ![t].dwell = 0,
                        ![t].trace = Append(@, Ev("recording_end", -1))]
    /\ UNCHANGED <<canvas_size, is_transmitting, current_index, cycle_count,
                   single_cycle_mode, nThreads>>
    /\ UNCHANGED genVars
    /\ UNCHANGED <<uiVars, fnVars>> /\ noop' = "none"

\* lines 122-123: back to the header frame, the last progress report
LoopFinish(t) ==
    /\ th[t].pc = "end_sleep"
    /\ qr_images_lock = 0
    /\ shown' = GetImage(HeaderKey)
    /\ th' = [th EXCEPT ![t].pc = "done",
                        ![t].trace = Append(@, Ev("header", -1)),
                        ![t].reports = Append(@, Report100)]
    /\ UNCHANGED <<canvas_size, is_transmitting, current_index, cycle_count,
                   single_cycle_mode, nThreads>>
    /\ UNCHANGED genVars
    /\ UNCHANGED <<uiVars, fnVars>> /\ noop' = "none"

\* ----------------------------------------------------------- specification
Budget(files, runs, threads, ticks) ==
    [files |-> files, runs |-> runs, threads |-> threads, ticks |-> ticks]

Init ==
    /\ canvas_size \in CanvasSizes
    /\ start_btn = FALSE
    /\ stop_btn = FALSE
    /\ noop = "none"
    /\ shown = NoImage
    /\ file_data = None
    /\ qr_images = EmptyStore
    /\ qr_images_lock = 0
    /\ is_generating = FALSE
    /\ gen = [r \in Runs |-> IdleWorker]
    /\ nRuns = 0
    /\ nFiles = 0
    /\ is_transmitting = FALSE
    /\ current_index = -1
    /\ cycle_count = 0
    /\ single_cycle_mode = TRUE
    /\ th = [t \in Threads |-> IdleThread]
    /\ nThreads = 0

Next ==
    \/ \E exists \in BOOLEAN, n \in ChunkCounts : OnFileSelected(exists, n)
    \/ \E photo \in BOOLEAN : GenerateAllQrcodes(photo)
    \/ \E r \in Runs : GenBegin(r)
    \/ \E r \in Runs : GenRenderHeader(r)
    \/ \E r \in Runs : GenAcquire(r)
    \/ \E r \in Runs : GenStoreHeader(r)
    \/ \E r \in Runs : GenRenderPage(r)
    \/ \E r \in Runs : GenStorePage(r)
    \/ \E r \in Runs : GenComplete(r)
    \/ \E r \in Runs : GenFault(r)
    \/ \E fps \in FpsValues, single \in BOOLEAN : OnStartTransmission(fps, single)
    \/ OnStopTransmission
    \/ \E t \in Threads : LoopStartMarker(t)
    \/ \E t \in Threads : LoopSetup(t)
    \/ \E t \in Threads : LoopPoll(t)
    \/ \E t \in Threads : LoopTick(t)
    \/ \E t \in Threads : LoopEndMarker(t)
    \/ \E t \in Threads : LoopFinish(t)

\* transmission scenarios: one file, two loop threads
InitTx ==
    /\ Init
    /\ lim = Budget(TxFiles, TxRuns, TxThreads, TxTicks)
    /\ fp = NoCall /\ pg = NoRender

SpecTx == InitTx /\ [][Next]_vars

\* generation scenarios: two files, two workers, one short transmission
InitGen ==
    /\ Init
    /\ lim = Budget(GenFiles, GenRuns, GenThreads, GenTicks)
    /\ fp = NoCall /\ pg = NoRender

SpecGen == InitGen /\ [][Next]_vars

\* the controller driven through its own interface as well as by the buttons
InitApi ==
    /\ Init
    /\ lim = Budget(ApiFiles, ApiRuns, ApiThreads, ApiTicks)
    /\ fp = NoCall /\ pg = NoRender

NextApi ==
    \/ Next
    \/ \E fps \in FpsValues, single \in BOOLEAN : StartCall(fps, single)

SpecApi == InitApi /\ [][NextApi]_vars

\* the machine on the canvas of a small window
InitGrid ==
    /\ canvas_size \in SmallCanvasSizes
    /\ start_btn = FALSE /\ stop_btn = FALSE
    /\ noop = "none"
    /\ shown = NoImage
    /\ file_data = None
    /\ qr_images = EmptyStore
    /\ qr_images_lock = 0
    /\ is_generating = FALSE
    /\ gen = [r \in Runs |-> IdleWorker]
    /\ nRuns = 0 /\ nFiles = 0
    /\ is_transmitting = FALSE
    /\ current_index = -1
    /\ cycle_count = 0
    /\ single_cycle_mode = TRUE
    /\ th = [t \in Threads |-> IdleThread]
    /\ nThreads = 0
    /\ lim = Budget(GridFiles, GridRuns, GridThreads, GridTicks)
    /\ fp = NoCall /\ pg = NoRender

SpecGrid == InitGrid /\ [][Next]_vars

\* process_file on its own: every call of Calls
InitFile ==
    /\ Init
    /\ lim = Budget(0, 0, 0, 0)
    /\ fp \in Calls /\ pg = NoRender

NextFile == FpProcessFile \/ FpCreateHeader

SpecFile == InitFile /\ [][NextFile]_vars

\* the page renderers on their own: every call of Renders
InitPage ==
    /\ Init
    /\ lim = Budget(0, 0, 0, 0)
    /\ fp = NoCall /\ pg \in Renders

NextPage == PgRender

SpecPage == InitPage /\ [][NextPage]_vars

\* ------------------------------------------------------------------ claims
\* the keys of the page frames a loop thread asked for, in order
RECURSIVE PagesOf(_)
PagesOf(trace) ==
    IF trace = <<>> THEN <<>>
    ELSE IF Head(trace).ev = "page"
         THEN <<Head(trace).key>> \o PagesOf(Tail(trace))
         ELSE PagesOf(Tail(trace))

\* the loop of thread t has been left
LoopLeft(t) == th[t].pc \in {"end_marker", "end_sleep", "done"}
\* thread t has fixed the locals of its loop (lines 46-60)
SetUp(t) == th[t].pc \in {"loop", "body", "end_marker", "end_sleep", "done"}
\* stop() has not been called so far
NoStopYet == \A u \in Threads : ~th[u].stop_req
\* the scheduler's page count for the transfer of thread t
PagesFor(t) == TotalPages(th[t].chunk_count, th[t].adj)
\* the keys of PAGE(1) .. PAGE(n) for page step adj
PageKeys(n, adj) == [k \in 1..n |-> (k - 1) * adj]
IsPrefix(a, b) == Len(a) <= Len(b) /\ a = SubSeq(b, 1, Len(a))

\* C1: in single-cycle mode with N >= 1 pages and no stop(), a loop thread
\* shows PAGE(1) .. PAGE(N) once each in ascending order (while it runs, a
\* prefix of them), then leaves the loop, has reported 100 %, and cycle_count
\* is 1 (as long as no later start() resets it).
C1_SingleCycle ==
    \A t \in Threads :
        (SetUp(t) /\ th[t].should_stop /\ NoStopYet
                  /\ th[t].adj >= 1 /\ PagesFor(t) >= 1)
        => /\ IsPrefix(PagesOf(th[t].trace), PageKeys(PagesFor(t), th[t].adj))
           /\ LoopLeft(t) =>
                /\ PagesOf(th[t].trace) = PageKeys(PagesFor(t), th[t].adj)
                /\ Len(th[t].reports) = PagesFor(t) + 1
                       + (IF th[t].pc = "done" THEN 1 ELSE 0)
                /\ th[t].reports[PagesFor(t) + 1] = Report100
                /\ t = nThreads => cycle_count = 1
                /\ ~is_transmitting \/ t # nThreads

\* C1 witness: a single-cycle thread has ended a two-page transfer unstopped
C1_Witness ==
    \E t \in Threads :
        /\ th[t].pc = "done" /\ th[t].should_stop /\ NoStopYet
        /\ PagesFor(t) = 2 /\ Len(PagesOf(th[t].trace)) = 2
        /\ cycle_count = 1

\* C2: in continuous mode the scheduler reaches STOPPED only after an external
\* stop(): a loop thread that runs in continuous mode leaves its loop only if
\* stop() has been called since its session was started.
C2_ContinuousNeverStopsItself ==
    \A t \in Threads :
        (LoopLeft(t) /\ ~th[t].should_stop) => th[t].stop_req

\* C3: after stop() is called during a running session, the loop observes the
\* stop at the top of its next tick: every poll of the while condition by a
\* thread whose session has been stopped leaves the loop.
C3_StopObservedAtNextTick ==
    [][\A t \in Threads :
          (th[t].pc = "loop" /\ th[t].stop_req /\ th'[t].pc # "loop")
          => th'[t].pc = "end_marker"]_vars

\* C4: at most one _transmission_loop is executing at any time (a thread in
\* its tick sleep or its END_MARKER dwell included).
C4_SingleActiveSession == Cardinality({t \in Threads : Alive(t)}) <= 1

\* C5: once a new file's data is set, the frame store never holds a frame
\* rendered from the previous file's header or chunks (the old worker stores
\* no further frames): every stored frame is laid out and filled from the
\* current file.
C5_NoStaleFrames ==
    \A k \in DOMAIN qr_images :
        qr_images[k].src = file_data.id /\ qr_images[k].lay = file_data.id

\* C6: a session running when a new file is loaded is stopped before the
\* generation for the new file begins: the load that starts a generation
\* leaves is_transmitting false.
C6_LoadStopsScheduler ==
    [][(nFiles' # nFiles /\ nRuns' # nRuns /\ is_transmitting)
       => ~is_transmitting']_vars

\* worker r is running _generate_thread
Running(r) == gen[r].pc \notin {"none", "done", "failed"}

\* C7: generate_all_qrcodes called while a generation is running starts no
\* second worker and leaves the frame store unchanged in content and count.
C7_GenerateReentrant ==
    [][is_generating =>
         /\ nRuns' = nRuns
         /\ \A r \in Runs : gen[r].pc = "none" => gen'[r].pc = "none"
         /\ Cardinality({r \in Runs : Running(r)}) = 1
         /\ noop' = "generate_all_qrcodes" =>
               /\ qr_images' = qr_images
               /\ Cardinality(DOMAIN qr_images') = Cardinality(DOMAIN qr_images)
               /\ gen' = gen]_vars

\* C7 witness: the call has just returned early during a generation that has
\* stored frames
C7_Witness ==
    /\ noop = "generate_all_qrcodes"
    /\ is_generating
    /\ Cardinality(DOMAIN qr_images) >= 2

\* the keys a run stores: the header, and a page per element of its range
RunKeys(w) ==
    {HeaderKey} \cup (IF w.step > 0
                      THEN {PageKey(i) : i \in RangeKeys(w.chunks.chunks, w.step)}
                      ELSE {})

\* C8: a run invokes complete_cb at most once, a completed run exactly once,
\* and only after its header frame and every one of its page frames have been
\* stored.
C8_CompleteOnce ==
    \A r \in Runs :
        /\ gen[r].completed <= 1
        /\ gen[r].pc = "done" <=> gen[r].completed = 1
        /\ gen[r].completed = 1 => gen[r].stored = RunKeys(gen[r])

\* C8 witness: a run over two pages has completed
C8_Witness ==
    \E r \in Runs :
        /\ gen[r].completed = 1
        /\ Cardinality(gen[r].stored) = 3

\* C9: a failed render step ends the run: the step stores nothing and leaves
\* every stored frame in place, the run stores no frame afterwards, and
\* is_generating is false so that the next request is accepted.
C9_RenderFault ==
    [][\A r \in Runs :
          /\ (gen[r].pc # "failed" /\ gen'[r].pc = "failed") =>
                /\ qr_images' = qr_images
                /\ \A k \in gen[r].stored \cap DOMAIN qr_images :
                       k \in DOMAIN qr_images' /\ qr_images'[k] = qr_images[k]
                /\ ~is_generating'
                /\ file_data' # None
                /\ gen'[r].stored = gen[r].stored
          /\ gen[r].pc = "failed" => gen'[r] = gen[r]]_vars

\* C9 witness: a run has failed after storing its header frame, which is
\* still in the store, and a generation request would be accepted
C9_Witness ==
    \E r \in Runs :
        /\ gen[r].pc = "failed"
        /\ HeaderKey \in gen[r].stored
        /\ HeaderKey \in DOMAIN qr_images
        /\ ~is_generating /\ file_data # None

\* C10: every write of qr_images is made while holding qr_images_lock: a
\* step that changes the store is a step of the thread that holds the lock.
C10_StoreWritesLocked ==
    [][qr_images' # qr_images =>
         /\ qr_images_lock # 0
         /\ gen'[qr_images_lock] # gen[qr_images_lock]]_vars

\* C11: a transfer of zero pages (chunk_count = 0) goes from the header dwell
\* to STOPPED: the loop thread never asks for a page frame, does not fault,
\* and once the header dwell is over is_transmitting is false.
C11_ZeroPagesStops ==
    \A t \in Threads :
        (SetUp(t) /\ th[t].chunk_count = 0 /\ NoStopYet)
        => /\ PagesOf(th[t].trace) = <<>>
           /\ th[t].pc # "crashed"
           /\ (th[t].pc = "loop" /\ current_index # -1) => ~is_transmitting

\* the data capacity of a grid: the cells less the markers, the floor applied
\* first in 4-marker mode
DataCapacity(cols, rows, photo) ==
    IF photo THEN Max(MinCols, cols) * Max(MinRows, rows) - ControlQrCount
    ELSE cols * rows - VideoControlQrCount

\* ceil(chunk_count / data capacity), 0 for no chunks
ExpectedPages(n, cols, rows, photo) ==
    IF n = 0 THEN 0
    ELSE TotalPages(n, DataCapacity(cols, rows, photo))

\* C12 (generator): a finished run over a valid grid has stored
\* ceil(chunk_count / capacity) page frames
C12_GeneratorPages ==
    \A r \in Runs :
        (gen[r].pc = "done"
           /\ DataCapacity(gen[r].cols, gen[r].rows, gen[r].photo_mode) >= 1)
        => Cardinality(gen[r].stored \ {HeaderKey})
             = ExpectedPages(gen[r].chunks.chunks, gen[r].cols, gen[r].rows,
                             gen[r].photo_mode)

\* C12 (markers): the total a rendered page frame carries is that page count
C12_MarkerTotal ==
    \A r \in Runs :
        gen[r].pc \in {"lock_page", "store_page"}
        => gen[r].img.total
             = ExpectedPages(gen[r].chunks.chunks, gen[r].cols, gen[r].rows,
                             gen[r].photo_mode)

\* C12 (scheduler): the total the scheduler uses for the frames of the
\* 4-marker grid is that page count
C12_SchedulerTotal ==
    \A t \in Threads :
        (SetUp(t) /\ th[t].adj >= 1)
        => PagesFor(t)
             = ExpectedPages(th[t].chunk_count, canvas_size[1], canvas_size[2],
                             TRUE)

\* C12: for every valid grid and marker mode the page count of a transfer -
\* the page frames the generator produces, the total in the markers, the
\* total the scheduler uses - is ceil(chunk_count / (cells - markers)), and
\* 0 for no chunks.
C12_PageCount == C12_GeneratorPages /\ C12_MarkerTotal /\ C12_SchedulerTotal

\* the chunk indices a page image carries, in the order of its cells
RECURSIVE ChunksOf(_)
ChunksOf(cells) ==
    IF cells = <<>> THEN <<>>
    ELSE IF Head(cells).kind = "chunk"
         THEN <<Head(cells).index>> \o ChunksOf(Tail(cells))
         ELSE ChunksOf(Tail(cells))

\* the indices lo .. hi - 1 in order
Interval(lo, hi) == [k \in 1..(hi - lo) |-> lo + k - 1]

\* C13 for the render call looked at: page p = i / D + 1 carries the chunks
\* (p-1)*D .. min(p*D, n) - 1 in row-major order, and each of its other
\* non-marker cells is marked empty
PageAssembled ==
    LET D == DataCapacity(pg.cols, pg.rows, pg.photo_mode)
        p == FloorDiv(pg.i, D) + 1
        cells == pg.matrix.cells
    IN  /\ ChunksOf(cells) = Interval((p - 1) * D, Min(p * D, pg.n))
        /\ \A k \in DOMAIN cells :
               cells[k].kind \in {"control", "chunk", "empty"}
        /\ Cardinality({k \in DOMAIN cells : cells[k].kind = "control"})
             = (IF pg.photo_mode THEN ControlQrCount ELSE VideoControlQrCount)

\* C13: in both marker modes page p of a grid of capacity D carries exactly
\* the chunks (p-1)*D .. min(p*D, chunk_count)-1, row-major in the non-marker
\* cells, and every remaining non-marker cell is explicitly marked empty.
C13_PageAssembly == pg.pc = "returned" => PageAssembled

\* C13 restricted to 4-marker mode
C13_PhotoPageAssembly == (pg.pc = "returned" /\ pg.photo_mode) => PageAssembled

\* the chunks' data joined in index order
RECURSIVE Concat(_)
Concat(chunks) ==
    IF chunks = <<>> THEN <<>> ELSE Head(chunks) \o Concat(Tail(chunks))

\* the text process_file segments
EncodedText == B64Encode(Compress(fp.data, fp.has_zstd))

\* C14: the data of the chunks joined in index order is the base64 text of
\* the compressed input, and decoding and decompressing it gives back the
\* input bytes.
C14_RoundTrip ==
    (fp.pc = "returned" /\ fp.result.ok)
    => /\ Concat(fp.result.chunks) = EncodedText
       /\ Decompress(B64Decode(Concat(fp.result.chunks))) = fp.data

\* C14 witness: a file of two bytes has been cut into three chunks or more
C14_Witness ==
    /\ fp.pc = "returned" /\ fp.result.ok
    /\ Len(fp.data) = 2
    /\ Len(fp.result.chunks) >= 3

\* ceil(a / b) for b >= 1
CeilDiv(a, b) == (a + b - 1) \div b

\* C15: a text of L characters cut at chunk size S >= 1 gives ceil(L / S)
\* chunks, each but the last of S characters, the last of 1 .. S; no
\* characters give no chunks.
C15_ChunkCount ==
    (fp.pc = "returned" /\ fp.result.ok)
    => LET S == fp.chunk_size
           chunks == fp.result.chunks
       IN  /\ Len(chunks) = CeilDiv(Len(EncodedText), S)
           /\ \A k \in 1..(Len(chunks) - 1) : Len(chunks[k]) = S
           /\ chunks # <<>> => Len(chunks[Len(chunks)]) \in 1..S
           /\ Segment(<<>>, S) = <<>>

\* C15 witness: the last of several chunks is shorter than the chunk size
C15_Witness ==
    /\ fp.pc = "returned" /\ fp.result.ok
    /\ Len(fp.result.chunks) >= 2
    /\ Len(fp.result.chunks[Len(fp.result.chunks)]) < fp.chunk_size

\* thread t runs the body of one iteration in this step
Ticks(t) == th[t].pc = "body" /\ th'[t].pc # "body"

\* thread t leaves the page at current_index in this step (to the next page,
\* to the header, or out of the loop after the last page)
LeavesPage(t) ==
    Ticks(t) /\ current_index # -1 /\ current_index' # current_index

\* C16: a page frame stays displayed for exactly fps * page_seconds
\* consecutive ticks before the scheduler advances: the thread that leaves
\* the page at current_index showed that page's frame fps * page_seconds
\* iterations ago, this one included, and has shown nothing else since.
C16_PageDwell ==
    [][\A t \in Threads :
          LeavesPage(t) =>
              /\ th[t].dwell + 1 = th[t].fps * MatrixSeconds
              /\ th[t].trace[Len(th[t].trace)] = Ev("page", current_index)]_vars

\* the progress reports of pages among a thread's reports, in order (the
\* "100 %, complete" reports carry no page)
RECURSIVE PageReportsOf(_)
PageReportsOf(reports) ==
    IF reports = <<>> THEN <<>>
    ELSE IF Head(reports).page >= 1
         THEN <<Head(reports)>> \o PageReportsOf(Tail(reports))
         ELSE PageReportsOf(Tail(reports))

\* thread t's page dwell expires in this step
PageExpires(t) ==
    /\ Ticks(t) /\ current_index # -1
    /\ th'[t].pc # "crashed"
    /\ MatrixExpired(th[t].matrix_count, th[t].fps)

ShowsMissing(t) ==
    /\ Ticks(t)
    /\ GetImage(IF current_index = -1 THEN HeaderKey
                 ELSE PageKey(current_index)) = NoImage
    /\ IF current_index = -1 THEN th[t].header_count = 0
       ELSE th[t].matrix_count = 0

C19_FailedLoad ==
    [][noop' = "on_file_selected" =>
          /\ \A id \in 0..GenFiles, n \in ChunkCounts :
                ProcessFile(FALSE, id, n) = None
          /\ file_data' = file_data
          /\ qr_images' = qr_images
          /\ is_generating' = is_generating
          /\ gen' = gen
          /\ nRuns' = nRuns /\ nFiles' = nFiles]_vars

\* C19 witness: a load has just failed while a file is loaded, frames are
\* stored and a generation is running
C19_Witness ==
    /\ noop = "on_file_selected"
    /\ file_data # None
    /\ DOMAIN qr_images # {}
    /\ is_generating

\* thread t belongs to a session started after a stop() of an earlier one,
\* and stop() has not been called since
Restarted(t) ==
    /\ t > 1 /\ \E u \in 1..(t - 1) : th[u].stop_req
    /\ ~th[t].stop_req

\* C20: a session started after a stop() (and not stopped itself) begins
\* from reset counters and plays the whole sequence from the start: its loop thread shows the start
\* marker, then the header, before any page, and its header dwell starts
\* from zero with current_index = -1 and cycle_count = 0.
C20_RestartFromStart ==
    \A t \in Threads : Restarted(t) =>
        /\ Len(th[t].trace) >= 1 => th[t].trace[1] = Ev("recording_start", -1)
        /\ Len(th[t].trace) >= 2 => th[t].trace[2] = Ev("header", -1)
        /\ (th[t].pc \in {"loop", "body"} /\ Len(th[t].trace) = 1)
              => /\ current_index = -1
                 /\ cycle_count = 0
                 /\ th[t].header_count = 0 /\ th[t].matrix_count = 0

\* the chunks per page of the canvas grid raised to the minimum of 4-marker
\* mode
FlooredCapacity ==
    Max(MinCols, canvas_size[1]) * Max(MinRows, canvas_size[2]) - ControlQrCount

\* C21: in 4-marker mode a grid below the minimum is raised to 5 columns and
\* 4 rows: the generator's page step and the scheduler's page step are both
\* the data capacity of the raised grid.
C21_GridFloor ==
    /\ \A r \in Runs :
          (gen[r].photo_mode
             /\ gen[r].pc \in {"pages", "lock_page", "store_page", "done"})
          => gen[r].step = FlooredCapacity
    /\ \A t \in Threads : SetUp(t) => th[t].adj = FlooredCapacity

\* the grid a render call lays its page out on
LayoutCols == IF pg.photo_mode THEN Max(MinCols, pg.cols) ELSE pg.cols
LayoutRows == IF pg.photo_mode THEN Max(MinRows, pg.rows) ELSE pg.rows

\* the reserved corner cells of the mode (cells numbered 1 .. cols * rows,
\* row by row) with their position labels
Corners ==
    IF pg.photo_mode
    THEN {<<1, "top-left">>, <<LayoutCols, "top-right">>,
          <<(LayoutRows - 1) * LayoutCols + 1, "bottom-left">>,
          <<LayoutRows * LayoutCols, "bottom-right">>}
    ELSE {<<1, "top-left">>} \cup
         (IF LayoutRows * LayoutCols > 1
          THEN {<<LayoutRows * LayoutCols, "bottom-right">>} ELSE {})

HeaderWireFields ==
    {"type", "fileName", "fileType", "originalSize", "compressedSize",
     "compressed", "compressionType", "totalChunks", "chunkSize",
     "totalPages", "timestamp"}

\* C23: the header payload has exactly the wire field set, totalChunks is
\* the number of chunks and chunkSize is the chunk size the file was
\* segmented with.
C23_HeaderFields ==
    fp.pc = "header" =>
        /\ DOMAIN fp.header = HeaderWireFields
        /\ fp.header.totalChunks = Len(fp.result.chunks)
        /\ fp.header.chunkSize = fp.chunk_size

\* C23, the field set alone
C23_FieldSet == fp.pc = "header" => DOMAIN fp.header = HeaderWireFields

\* C23, the chunk size alone
C23_ChunkSize == fp.pc = "header" => fp.header.chunkSize = fp.chunk_size

\* C23, the chunk count alone
C23_TotalChunks ==
    fp.pc = "header" => fp.header.totalChunks = Len(fp.result.chunks)

\* worker r has fixed its page step (lines 72, 106-110)
StepFixed(r) == gen[r].pc \in {"pages", "lock_page", "store_page", "done"}

\* C24: the data capacity used for paging is at least 1 in the generator
\* and in the scheduler: no run pages with a step below 1 and no loop
\* advances by less than 1 (a grid too small for that is refused before any
\* frame is generated or displayed).
C24_CapacityPositive ==
    /\ \A r \in Runs : StepFixed(r) => gen[r].step >= 1
    /\ \A t \in Threads : SetUp(t) => th[t].adj >= 1

\* C24, the generator in 4-marker mode alone
C24_PhotoGenerator ==
    \A r \in Runs : (StepFixed(r) /\ gen[r].photo_mode) => gen[r].step >= 1

\* C24, the scheduler alone
C24_Scheduler == \A t \in Threads : SetUp(t) => th[t].adj >= 1

\* C24, the generator in 2-marker mode alone
C24_VideoGenerator ==
    \A r \in Runs : (StepFixed(r) /\ ~gen[r].photo_mode) => gen[r].step >= 1

\* the generation of the loaded file has completed and none is running
GenerationComplete ==
    /\ file_data # None /\ ~is_generating
    /\ \E r \in Runs : gen[r].pc = "done" /\ gen[r].chunks = file_data
    /\ \A r \in Runs : ~Running(r)

\* the page start indices the store holds a frame for
StoredPageKeys == {i \in 0..GetChunkCount : PageKey(i) \in DOMAIN qr_images}

\* the page start indices a loop thread has looked up so far
LookedUp(t) ==
    {th[t].trace[k].key :
        k \in {j \in DOMAIN th[t].trace : th[t].trace[j].ev = "page"}}

\* C25: after a completed generation every page key the scheduler looks up
\* is a key the generator stored a frame under, and a whole cycle looks up
\* every stored page key: both page the chunks with the same capacity.
C25_SameKeys ==
    \A t \in Threads :
        (GenerationComplete /\ SetUp(t) /\ th[t].adj >= 1)
        => /\ LookedUp(t) \subseteq StoredPageKeys
           /\ (LoopLeft(t) /\ th[t].should_stop /\ NoStopYet)
                 => StoredPageKeys \subseteq LookedUp(t)
           /\ RangeKeys(th[t].chunk_count, th[t].adj) = StoredPageKeys

\* C25 on a canvas that is not below the minimum grid, for one session
C25_SameKeysLargeCanvas ==
    (canvas_size[1] >= MinCols /\ canvas_size[2] >= MinRows /\ NoStopYet)
    => C25_SameKeys

\* a loop thread has played a whole two-page cycle on the 5 x 4 canvas
C25_LargeCanvasReached ==
    \E t \in Threads :
        /\ canvas_size = <<5, 4>> /\ GenerationComplete
        /\ LoopLeft(t) /\ th[t].should_stop /\ NoStopYet
        /\ LookedUp(t) = {0, 16}

\* no worker is running and none has failed: nothing more will be generated
Quiet == \A r \in Runs : ~Running(r) /\ gen[r].pc # "failed"

\* a completed run was made for the loaded file and the store holds the
\* file's header frame and every page frame of that run
GeneratedForLoadedFile ==
    \E r \in Runs :
        /\ gen[r].pc = "done" /\ gen[r].chunks = file_data
        /\ RunKeys(gen[r]) \subseteq DOMAIN qr_images
        /\ \A k \in RunKeys(gen[r]) :
              qr_images[k].src = file_data.id /\ qr_images[k].lay = file_data.id

\* C26: a successful load is not lost: once the workers have come to rest
\* without a render fault, a run has completed for the loaded file and the
\* store holds that file's header frame and all of its page frames.
C26_LoadGenerates == (file_data # None /\ Quiet) => GeneratedForLoadedFile

\* C26 when only one file is loaded
C26_FirstLoadGenerates ==
    (file_data # None /\ Quiet /\ nFiles = 1) => GeneratedForLoadedFile

\* a load has been made and its two-page generation has come to rest
C26_FirstLoadReached ==
    /\ nFiles = 1 /\ Quiet /\ file_data # None
    /\ Cardinality(DOMAIN qr_images) = 3

\* C27: whenever is_transmitting is true a loop thread is alive: a loop that
\* has ended, for whatever reason, has left is_transmitting false, and the
\* controller is never stuck running with no loop.
C27_RunningHasLoop == is_transmitting => \E t \in Threads : Alive(t)

\* thread t has shown every page of its transfer
AllPagesShown(t) ==
    /\ SetUp(t) /\ th[t].adj >= 1
    /\ RangeKeys(th[t].chunk_count, th[t].adj) \subseteq LookedUp(t)

\* the reports thread t makes in this step
NewReports(t) ==
    SubSeq(th'[t].reports, Len(th[t].reports) + 1, Len(th'[t].reports))

\* C28: a loop thread reports 100 % only when it has shown every page of the
\* transfer, and a thread whose session was stopped by stop() reports
\* nothing after stop() has returned.
C28_NoFalseCompletion ==
    [][\A t \in Threads :
          th'[t].reports # th[t].reports =>
              /\ ~th[t].stop_req
              /\ (\E k \in DOMAIN NewReports(t) : NewReports(t)[k] = Report100)
                    => AllPagesShown(t)']_vars

\* C28, the 100 % report alone
C28_CompleteMeansAllShown ==
    \A t \in Threads :
        (\E k \in DOMAIN th[t].reports : th[t].reports[k] = Report100)
        => AllPagesShown(t)

\* C28 in a session that is never stopped
C28_UnstoppedCompletion ==
    [][\A t \in Threads :
          (NoStopYet' /\ th'[t].reports # th[t].reports
             /\ \E k \in DOMAIN NewReports(t) : NewReports(t)[k] = Report100)
          => AllPagesShown(t)']_vars

\* the page start indices among a set of store keys
PageIndices(keys) ==
    {i \in UNION {0..n : n \in ChunkCounts} : PageKey(i) \in keys}

\* worker r stores its frames in the order of a run: the header first, then
\* the pages by ascending first chunk index, each under that index
StoresInOrder(r) ==
    gen'[r].stored # gen[r].stored =>
        \E k \in DOMAIN qr_images' :
            /\ gen'[r].stored = gen[r].stored \cup {k}
            /\ k \notin gen[r].stored
            /\ k = HeaderKey => gen[r].stored = {}
            /\ k # HeaderKey =>
                  /\ HeaderKey \in gen[r].stored
                  /\ k = PageKey(gen[r].i)
                  /\ qr_images'[k].first = gen[r].i
                  /\ gen[r].i =
                        (qr_images'[k].page - 1) * gen[r].step
                  /\ \A j \in PageIndices(gen[r].stored) : j < gen[r].i

\* worker r completes in this step
Completes(r) == gen[r].pc # "done" /\ gen'[r].pc = "done"

\* C29: a run stores the header frame under "header" first, then the page
\* frames in ascending page order, each under its first chunk index, and when
\* it completes the store's keys are exactly "header" and (p - 1) * D for the
\* pages p of the run.
C29_StoreOrderAndKeys ==
    [][\A r \in Runs :
          /\ StoresInOrder(r)
          /\ Completes(r) => DOMAIN qr_images' = RunKeys(gen[r])]_vars

\* C29, the order of a run's writes alone
C29_StoreOrder == [][\A r \in Runs : StoresInOrder(r)]_vars

\* C29 for the first run of the only file loaded
C29_FirstRunKeys ==
    [][\A r \in Runs :
          (Completes(r) /\ nFiles' = 1 /\ nRuns' = 1)
          => DOMAIN qr_images' = RunKeys(gen[r])]_vars

\* a first run over two pages completes with three keys in the store
C29_FirstRunReached ==
    /\ nFiles = 1 /\ nRuns = 1 /\ gen[1].pc = "done"
    /\ Cardinality(DOMAIN qr_images) = 3

\* the frames of a session come in the order of the protocol: the start
\* marker first; a page either opens a cycle right after the header (first
\* chunk 0) or follows the page before it; the end marker only once the loop
\* is left, with no page after it
InProtocolOrder(t) ==
    LET trace == th[t].trace IN
    /\ trace # <<>> => trace[1] = Ev("recording_start", -1)
    /\ \A k \in DOMAIN trace :
          /\ trace[k].ev = "recording_start" => k = 1
          /\ trace[k].ev = "header" => k > 1
          /\ trace[k].ev = "page" =>
                /\ k > 2
                /\ \/ trace[k - 1] = Ev("header", -1) /\ trace[k].key = 0
                   \/ /\ trace[k - 1].ev = "page"
                      /\ trace[k].key = trace[k - 1].key + th[t].adj
                /\ trace[k].key < th[t].chunk_count
          /\ trace[k].ev = "recording_end" =>
                /\ LoopLeft(t)
                /\ \A j \in DOMAIN trace :
                      j > k => trace[j] = Ev("header", -1)

\* C30: in every session the displayed frames are the start marker, then per
\* cycle the header followed by the pages in ascending order, and the end
\* marker only after the loop has been left, with no page after it.
C30_FrameSequence == \A t \in Threads : InProtocolOrder(t)

\* C30 as long as one loop thread only has been started
C30_FrameSequenceOneLoop == nThreads <= 1 => C30_FrameSequence

\* one loop thread has played header, two pages and the end marker
C30_OneLoopReached ==
    /\ nThreads = 1 /\ th[1].pc = "done"
    /\ Len(PagesOf(th[1].trace)) = 2

\* worker r is inside a with self.qr_images_lock block
InStoreBlock(r) == gen[r].pc \in {"store_header", "store_page"}

\* C31: qr_images_lock is held only for a single store of a frame: its
\* holder is a worker inside a with block, which can always take its next
\* step; that step writes one key and releases the lock without rendering
\* or calling a callback, and taking the lock changes nothing else. So no
\* thread waits for the lock longer than one store, and a get_image (found
\* or not found) is never kept waiting by the rest of the generation.
C31_LockHeldForOneStore ==
    [][/\ qr_images_lock # 0 =>
             /\ InStoreBlock(qr_images_lock)
             /\ ENABLED (GenStoreHeader(qr_images_lock)
                            \/ GenStorePage(qr_images_lock))
             /\ \A r \in Runs : r # qr_images_lock => ~InStoreBlock(r)
       /\ (qr_images_lock # 0 /\ gen'[qr_images_lock] # gen[qr_images_lock]) =>
             /\ qr_images_lock' = 0
             /\ Cardinality(DOMAIN qr_images' \ DOMAIN qr_images) <= 1
             /\ \A k \in DOMAIN qr_images \cap DOMAIN qr_images' :
                   qr_images'[k] # qr_images[k] =>
                      qr_images'[k] = gen[qr_images_lock].img
             /\ gen'[qr_images_lock].img = gen[qr_images_lock].img
             /\ gen'[qr_images_lock].completed = gen[qr_images_lock].completed
             /\ UNCHANGED <<shown, start_btn, is_generating>>
       /\ (qr_images_lock = 0 /\ qr_images_lock' # 0) =>
             /\ InStoreBlock(qr_images_lock)'
             /\ UNCHANGED <<shown, qr_images, is_generating, start_btn>>
       /\ shown' # shown => qr_images_lock = 0]_vars

\* C31 witness: a worker holds the lock while a loop thread is about to ask
\* for a frame, and the frame it will ask for is not stored
C31_Witness ==
    /\ qr_images_lock # 0
    /\ \E t \in Threads :
          /\ th[t].pc = "body"
          /\ current_index # -1 /\ th[t].matrix_count = 0
          /\ GetImage(PageKey(current_index)) = NoImage

====
